---- MODULE Spec2Model ----
(***************************************************************************)
(* The job control plane of the Forever Jukebox analysis API: the SQLite   *)
(* job store (api/db.py), the HTTP handlers that create, repair, look up   *)
(* and delete jobs (api/routes/jobs.py), the background fetcher            *)
(* (_download_youtube_audio) and the worker loop (worker/worker.py).       *)
(*                                                                         *)
(* Every SQL statement and every file operation is atomic; a handler that  *)
(* issues several of them is a thread that other threads interleave with,  *)
(* so it is modelled as a task with a program position.  FastAPI runs the  *)
(* synchronous handlers and background tasks on a thread pool and each     *)
(* worker is a process of its own.                                         *)
(***************************************************************************)
EXTENDS Integers, FiniteSets, Sequences, Bags, TLC

\* ---------------------------------------------------------------- bounds
MaxJobs == 2        \* job ids ever handed out (uuid4 values, never reused)
MaxThreads == 3     \* threads (handlers, fetchers, worker cycles) running at once
MaxLoad == 4        \* a run's jobs and concurrent threads, added up
NumWorkers == 2     \* sibling worker processes
NumTracks == 1      \* distinct (title, artist) pairs a request may carry
MaxPlays == 3       \* play_count values reached by increments

\* ------------------------------------------------------ program constants
RECYCLE_PROGRESS == 25      \* _should_recycle_job: job.progress >= 25
FETCH_DONE_PROGRESS == 25   \* _download_youtube_audio: set_job_progress(.., 25)
API_PROGRESS_START == 26    \* worker.py

JobIds == 1..MaxJobs
VideoA == 1                 \* the one video id requests carry
NoVideo == 0                \* youtube_id IS NULL
NoTrack == 0                \* title or artist missing or empty
None == 0                   \* no Job (a lookup that matched nothing)
NoKey == 0                  \* ADMIN_KEY unset or empty; no key in the request
AdminKey == 1               \* the value ADMIN_KEY is set to
OtherKey == 2               \* any other non-empty key
Tracks == 1..NumTracks
TitleOnly == -1             \* a title and no artist (NULL or '')
ArtistOnly == -2            \* an artist and no title
ENGINE_PROGRESS_START == 50
ENGINE_PROGRESS_END == 100
API_PROGRESS_WAIT == 63     \* int(round(26 + (75 - 50) * 74 / 50))
API_PROGRESS_END == 100
MaxBumps == 2               \* idle bumps of one run the model follows
EngineValues == {50, 51, 80}    \* the n of the engine's PROGRESS:<n> lines
Blank == 0                  \* a title or artist that is missing or empty
FromTags == 1               \* the one the engine read from the audio file's tags
FromJob == 2                \* the one stored in the job's row
HookValues == {12, 25}      \* values int(round(ratio * 25)) the hook reports

VARIABLES
    rows,       \* the jobs table: job id -> row (status "absent": no row)
    audio,      \* job ids with a file audio/<id>.*
    analysis,   \* job ids with a file analysis/<id>.json
    logs,       \* job ids with a file logs/<id>.log
    tasks,      \* bag of running threads: handlers, fetchers, worker cycles
    nextId,     \* number of ids handed out so far
    resp,       \* what the last step reported: an HTTP response, the None of
                \* claim_next_job, or a line of the application log
    limit,      \* the size of this run: jobs created, threads at once
    env,        \* the environment: ADMIN_KEY, ALLOW_USER_UPLOAD, ALLOW_USER_YOUTUBE
    recent,     \* the ids of the rows with play_count > 0, by updated_at,
                \* newest first
    aged_out,   \* job ids whose artifact was last written over 30 minutes ago
    artifact,   \* job id -> the track title and artist in analysis/<id>.json;
                \* while the file is not there, those the engine will write
    result      \* one run of the engine's analyzer: its inputs and the event
                \* lists of the result it builds

\* An artifact whose track object has neither title nor artist
NoTags == [j \in JobIds |-> [title |-> Blank, artist |-> Blank]]

\* No run of the analyzer is followed
NoResult == [stage |-> "none"]

\* What the job pipeline (create, fetch, work, repair, delete) never writes.
side == <<env, recent, aged_out, artifact, result>>

vars == <<rows, audio, analysis, logs, tasks, nextId, resp, limit, side>>

\* The runs explored: up to MaxJobs jobs and up to MaxThreads concurrent
\* threads, the two adding up to MaxLoad.
Limits ==
    {l \in [jobs : 1..MaxJobs, threads : 1..MaxThreads] : l.jobs + l.threads = MaxLoad}

\* ------------------------------------------------------------ the table
\* class Job.  input: input_path is non-empty; old: a downloading row whose
\* updated_at is more than 30 s in the past; created: created_at, as the
\* rank of the insertion; aged: created_at is more than 30 minutes in the
\* past; plays: play_count; user: is_user_supplied.
Absent ==
    [status |-> "absent", progress |-> 0, input |-> FALSE, video |-> NoVideo,
     track |-> NoTrack, old |-> FALSE, created |-> 0, aged |-> FALSE,
     plays |-> 0, user |-> FALSE]

Exists(j) == rows[j].status # "absent"

\* create_job
create_job(j, status, input, track, video, user) ==
    [rows EXCEPT ![j] =
        [status |-> status, progress |-> 0, input |-> input, video |-> video,
         track |-> track, old |-> FALSE, created |-> j, aged |-> FALSE,
         plays |-> 0, user |-> user]]

\* set_job_status as an insert-or-update
set_job_status_Upsert(j, status) == [rows EXCEPT ![j].status = status, ![j].old = FALSE]

\* An UPDATE ... WHERE id = ? touches no row when the id is absent.
\* set_job_status
set_job_status(j, status) ==
    IF Exists(j)
    THEN [rows EXCEPT ![j].status = status, ![j].old = FALSE]
    ELSE rows

\* set_job_progress: clamps to 0..100
Clamp(p) == IF p < 0 THEN 0 ELSE IF p > 100 THEN 100 ELSE p

set_job_progress(j, p) ==
    IF Exists(j)
    THEN [rows EXCEPT ![j].progress = Clamp(p), ![j].old = FALSE]
    ELSE rows

\* update_job_input_path with the UPDATE left out
update_job_input_path_Skipped(j) == rows

\* update_job_input_path
update_job_input_path(j) ==
    IF Exists(j)
    THEN [rows EXCEPT ![j].input = TRUE, ![j].old = FALSE]
    ELSE rows

\* delete_job keeping the row with status failed
delete_job_MarkFailed(j) == [rows EXCEPT ![j].status = "failed"]

\* delete_job
delete_job(j) == [rows EXCEPT ![j] = Absent]

\* ------------------------------------------------------------- threads
Task(kind, pc, job, inp, track, origin, last) ==
    [kind |-> kind, pc |-> pc, job |-> job, inp |-> inp, track |-> track,
     origin |-> origin, last |-> last, engine |-> 0]

Running == BagToSet(tasks)
Start(b, t) == b (+) SetToBag({t})
Stop(b, t) == b (-) SetToBag({t})
Move(b, t, u) == Start(Stop(b, t), u)
At(t, pc) == [t EXCEPT !.pc = pc]

CountOf(kinds) ==
    BagCardinality([t \in {u \in Running : u.kind \in kinds} |-> tasks[t]])

\* A thread is left for a new request or a new worker cycle.
ThreadFree == BagCardinality(tasks) < limit.threads

\* An id is left for a new job, counting one for every create handler that
\* has not yet inserted its row (the model's bound on ids; uuid4 never runs out).
IdFree == nextId + CountOf({"create"}) < limit.jobs

\* op: the handler; code: the HTTP status (0: none sent yet); id: the job id
\* in the payload; recycled: the id in _recycle_job's log line; count: the
\* play_count in the payload; items: the ids in a TopSongsResponse.
Resp(op, code, id) ==
    [op |-> op, code |-> code, id |-> id, recycled |-> None, count |-> 0,
     items |-> <<>>]
NoResp == Resp("none", 0, None)
Recycling(r, m) == [r EXCEPT !.recycled = m]
Counting(r, n) == [r EXCEPT !.count = n]
Listing(r, ids) == [r EXCEPT !.items = ids]

\* ------------------------------------------------------- the write lock
\* claim_next_job: BEGIN IMMEDIATE takes SQLite's write lock, held until
\* COMMIT.  A connection that wants to write while it is held waits.
\* BEGIN (deferred) in place of BEGIN IMMEDIATE: no lock is taken.
LockFree_Deferred == TRUE

\* Every statement of increment_job_plays and set_job_play_count committed
\* on its own: their UPDATE holds no lock up to their SELECT.
LockFree_Autocommit == \A t \in Running : ~(t.kind = "worker" /\ t.pc = "selected")

\* increment_job_plays, set_job_play_count: the UPDATE opens a transaction
\* and takes the write lock, held over the SELECT until conn.commit().
LockFree ==
    \A t \in Running :
        /\ ~(t.kind = "worker" /\ t.pc = "selected")
        /\ ~(t.kind \in {"plays", "setplays"} /\ t.pc = "updated")

\* ------------------------------------------------------------- staleness
\* job.progress > 25 in place of job.progress >= 25
Stale_Strict(j) ==
    /\ rows[j].status = "downloading"
    /\ \/ j \in logs
       \/ rows[j].progress > RECYCLE_PROGRESS /\ rows[j].old

\* the idle rule without its progress test: return age_s > 30
Stale_AnyProgress(j) ==
    /\ rows[j].status = "downloading"
    /\ \/ j \in logs
       \/ rows[j].old

\* _should_recycle_job
Stale(j) ==
    /\ rows[j].status = "downloading"
    /\ \/ j \in logs
       \/ rows[j].progress >= RECYCLE_PROGRESS /\ rows[j].old

\* ORDER BY created_at DESC LIMIT 1 over the rows matching a dedup key
Newest(S) == CHOOSE j \in S : \A k \in S : rows[k].created <= rows[j].created
\* ORDER BY created_at DESC in claim_next_job's SELECT
Oldest_Desc(S) == CHOOSE j \in S : \A k \in S : rows[k].created <= rows[j].created

\* ORDER BY created_at LIMIT 1
Oldest(S) == CHOOSE j \in S : \A k \in S : rows[j].created <= rows[k].created

\* WHERE status IN ('queued', 'complete') in claim_next_job's SELECT
Queued_OrComplete == {j \in JobIds : rows[j].status \in {"queued", "complete"}}

\* claim_next_job whose SELECT matches no row
Queued_None == {}

\* WHERE status = 'queued'
Queued == {j \in JobIds : rows[j].status = "queued"}
WithVideo(v) == {j \in JobIds : Exists(j) /\ rows[j].video = v}
WithTrack(tr) == {j \in JobIds : Exists(j) /\ rows[j].track = tr}

\* claim_next_job: UPDATE jobs SET status = 'processing', progress = 0,
\* updated_at = now WHERE id = ?
claim_update(j) ==
    IF Exists(j)
    THEN [rows EXCEPT ![j].status = "processing", ![j].progress = 0,
                      ![j].old = FALSE]
    ELSE rows

\* ---------------------------------------------------------------- worker
\* main calls claim_next_job: BEGIN IMMEDIATE and the SELECT.  With no
\* queued row: COMMIT, return None, and main sleeps POLL_INTERVAL_S before
\* it starts over.  Otherwise the transaction stays open on the row read.
ClaimSelect ==
    /\ CountOf({"worker"}) < NumWorkers
    /\ LockFree
    /\ IF Queued = {}
       THEN UNCHANGED tasks
       ELSE /\ ThreadFree
            /\ LET j == Oldest(Queued) IN
               tasks' = Start(tasks, Task("worker", "selected", j, rows[j].input,
                                          rows[j].track, "loop", 0))
    /\ resp' = IF Queued = {} THEN Resp("claim", 0, None) ELSE NoResp
    /\ UNCHANGED <<rows, audio, analysis, logs, nextId, limit, side>>

\* claim_next_job: the UPDATE and the COMMIT; returns the Job read by the SELECT
ClaimUpdate(t) ==
    /\ t.kind = "worker" /\ t.pc = "selected"
    /\ rows' = claim_update(t.job)
    /\ tasks' = Move(tasks, t, At(t, "claimed"))
    /\ resp' = NoResp
    /\ UNCHANGED <<audio, analysis, logs, nextId, limit, side>>

\* run_job: set_job_progress(DB_PATH, job_id, API_PROGRESS_START),
\* progress_state = {"value": API_PROGRESS_START, ...} (the task's last),
\* then the bump thread and the engine subprocess are started
RunStart(t) ==
    /\ t.kind = "worker" /\ t.pc = "claimed"
    /\ LockFree
    /\ rows' = set_job_progress(t.job, API_PROGRESS_START)
    /\ tasks' = Move(tasks, t, [At(t, "engine") EXCEPT !.last = API_PROGRESS_START])
    /\ resp' = NoResp
    /\ UNCHANGED <<audio, analysis, logs, nextId, limit, side>>

\* run_job: the engine reads the staging audio, writes the artifact to
\* output_path and exits 0
EngineExit0(t) ==
    /\ t.kind = "worker" /\ t.pc = "engine"
    /\ t.job \in audio
    /\ analysis' = analysis \cup {t.job}
    /\ tasks' = Move(tasks, t, At(t, "exited"))
    /\ resp' = NoResp
    /\ UNCHANGED <<rows, audio, logs, nextId, limit, side>>

\* main: set_job_progress(DB_PATH, job.id, 100), after apply_track_metadata
\* (what that does to the artifact is followed by ApplyTrackMetadata)
WorkerProgress100(t) ==
    /\ t.kind = "worker" /\ t.pc \in {"exited", "overlaid"}
    /\ LockFree
    /\ rows' = set_job_progress(t.job, 100)
    /\ tasks' = Move(tasks, t, At(t, "p100"))
    /\ resp' = NoResp
    /\ UNCHANGED <<audio, analysis, logs, nextId, limit, side>>

\* main: set_job_status(DB_PATH, job.id, "complete", None)
WorkerComplete(t) ==
    /\ t.kind = "worker" /\ t.pc = "p100"
    /\ LockFree
    /\ rows' = set_job_status(t.job, "complete")
    /\ tasks' = Stop(tasks, t)
    /\ resp' = NoResp
    /\ UNCHANGED <<audio, analysis, logs, nextId, limit, side>>

\* cleanup_failed_job without the unlink of input_path
cleanup_audio_Kept(t) == audio

\* cleanup_failed_job: the paths are those of the Job returned by the claim
cleanup_audio(t) == IF t.inp THEN audio \ {t.job} ELSE audio

\* main: except Exception -> cleanup_failed_job(job, exc); continue.
\* Raised by run_job (RuntimeError before the engine starts, JobFailure on
\* a non-zero exit), apply_track_metadata or set_job_progress.
WorkerFail(t) ==
    /\ t.kind = "worker" /\ t.pc \in {"claimed", "engine", "exited", "overlaid"}
    /\ LockFree
    /\ logs' = logs \cup {t.job}
    /\ audio' = cleanup_audio(t)
    /\ analysis' = analysis \ {t.job}
    /\ rows' = delete_job(t.job)
    /\ tasks' = Stop(tasks, t)
    /\ resp' = Resp("worker_failed", 0, t.job)
    /\ UNCHANGED <<nextId, limit, side>>

\* ---------------------------------------------------------------- upload
\* upload_audio: the body is streamed to audio/<id><ext>, then create_job
\* with status "queued", artist "" and no youtube_id.  The rejections are
\* those of UploadCall and UploadTooLarge.
Upload ==
    /\ env.upload
    /\ IdFree
    /\ LockFree
    /\ LET j == nextId + 1 IN
       /\ audio' = audio \cup {j}
       /\ rows' = create_job(j, "queued", TRUE, TitleOnly, NoVideo, TRUE)
       /\ nextId' = j
       /\ resp' = Resp("upload", 202, j)
    /\ UNCHANGED <<analysis, logs, tasks, limit, side>>

\* --------------------------------------------------------------- fetcher
\* A background task running _download_youtube_audio(job_id, youtube_id).
Fetcher(j, origin) == Task("fetch", "download", j, FALSE, NoTrack, origin, -1)

\* progress_hook: pushes int(round(ratio * 25)) when it differs from the
\* value this run pushed last
FetchHook(t, p) ==
    /\ t.kind = "fetch" /\ t.pc = "download"
    /\ p # t.last
    /\ LockFree
    /\ rows' = set_job_progress(t.job, p)
    /\ tasks' = Move(tasks, t, [t EXCEPT !.last = p])
    /\ resp' = NoResp
    /\ UNCHANGED <<audio, analysis, logs, nextId, limit, side>>

\* ydl.extract_info returns: the audio file is in the staging directory
FetchDownloaded(t) ==
    /\ t.kind = "fetch" /\ t.pc = "download"
    /\ audio' = audio \cup {t.job}
    /\ tasks' = Move(tasks, t, At(t, "file"))
    /\ resp' = NoResp
    /\ UNCHANGED <<rows, analysis, logs, nextId, limit, side>>

\* update_job_input_path(DB_PATH, job_id, str(relative_path)), reached when
\* the downloaded file is (still) there
FetchSetPath(t) ==
    /\ t.kind = "fetch" /\ t.pc = "file"
    /\ t.job \in audio
    /\ LockFree
    /\ rows' = update_job_input_path(t.job)
    /\ tasks' = Move(tasks, t, At(t, "path"))
    /\ resp' = NoResp
    /\ UNCHANGED <<audio, analysis, logs, nextId, limit, side>>

\* set_job_progress(DB_PATH, job_id, 25)
FetchSetProgress(t) ==
    /\ t.kind = "fetch" /\ t.pc = "path"
    /\ LockFree
    /\ rows' = set_job_progress(t.job, FETCH_DONE_PROGRESS)
    /\ tasks' = Move(tasks, t, At(t, "p25"))
    /\ resp' = NoResp
    /\ UNCHANGED <<audio, analysis, logs, nextId, limit, side>>

\* set_job_status(DB_PATH, job_id, "queued", None)
FetchQueued(t) ==
    /\ t.kind = "fetch" /\ t.pc = "p25"
    /\ LockFree
    /\ rows' = set_job_status(t.job, "queued")
    /\ tasks' = Stop(tasks, t)
    /\ resp' = NoResp
    /\ UNCHANGED <<audio, analysis, logs, nextId, limit, side>>

\* _cleanup_failure, first statement: _write_failure_log.  Reached when
\* yt_dlp cannot be imported, when extract_info raises, and when no audio
\* file is found after the download ("Download failed").
FetchFail(t) ==
    /\ t.kind = "fetch"
    /\ \/ t.pc = "download"
       \/ t.pc = "file" /\ t.job \notin audio
    /\ logs' = logs \cup {t.job}
    /\ tasks' = Move(tasks, t, At(t, "failed"))
    /\ resp' = NoResp
    /\ UNCHANGED <<rows, audio, analysis, nextId, limit, side>>

\* _cleanup_failure without the unlink of analysis/<id>.json
FetchCleanup_KeepsResult(t) ==
    /\ t.kind = "fetch" /\ t.pc = "failed"
    /\ LockFree
    /\ audio' = audio \ {t.job}
    /\ rows' = delete_job(t.job)
    /\ tasks' = Stop(tasks, t)
    /\ resp' = Resp("fetch_failed", 0, t.job)
    /\ UNCHANGED <<analysis, logs, nextId, limit, side>>

\* _cleanup_failure, the rest: unlink audio/<id>.*, unlink
\* analysis/<id>.json, delete_job, logger.info("Job %s failed: %s")
FetchCleanup(t) ==
    /\ t.kind = "fetch" /\ t.pc = "failed"
    /\ LockFree
    /\ audio' = audio \ {t.job}
    /\ analysis' = analysis \ {t.job}
    /\ rows' = delete_job(t.job)
    /\ tasks' = Stop(tasks, t)
    /\ resp' = Resp("fetch_failed", 0, t.job)
    /\ UNCHANGED <<logs, nextId, limit, side>>

\* ------------------------------------------------------------ dedup lookup
\* get_job_by_youtube_id / get_job_by_track: the newest matching row, or
\* None
Match(S) == IF S = {} THEN None ELSE Newest(S)

\* _job_response: 202 while the job advances, 200 otherwise
StatusCode(j) ==
    IF rows[j].status \in {"queued", "processing", "downloading"} THEN 202 ELSE 200

\* get_job_by_youtube / get_job_by_track_match: 404 when nothing matches;
\* a stale match is recycled (_recycle_job: delete_job) and answered 404;
\* any other match is answered with its status payload.
Lookup(op, m) ==
    /\ m # None /\ Stale(m) => LockFree
    /\ rows' = IF m # None /\ Stale(m) THEN delete_job(m) ELSE rows
    /\ resp' = IF m = None THEN Resp(op, 404, None)
               ELSE IF Stale(m) THEN Recycling(Resp(op, 404, None), m)
               ELSE Resp(op, StatusCode(m), m)
    /\ UNCHANGED <<audio, analysis, logs, tasks, nextId, limit, side>>

LookupByVideo == Lookup("by_video", Match(WithVideo(VideoA)))

LookupByTrack(tr) == Lookup("by_track", Match(WithTrack(tr)))

\* ------------------------------------------------------ create from video
\* create_analysis_youtube: the payload passed validation and is not
\* marked is_user_supplied.  The bound on ids is taken into account here so
\* that no handler waits for an id.
CreateRequest(tr) ==
    /\ ThreadFree
    /\ IdFree
    /\ tasks' = Start(tasks, Task("create", IF tr = NoTrack THEN "video" ELSE "track",
                                  None, FALSE, tr, "http", 0))
    /\ resp' = NoResp
    /\ UNCHANGED <<rows, audio, analysis, logs, nextId, limit, side>>

\* existing.status == "complete" in place of existing.status != "failed"
CreateDedup_OnlyComplete(t, m, next) ==
    /\ m # None /\ Stale(m) => LockFree
    /\ rows' = IF m # None /\ Stale(m) THEN delete_job(m) ELSE rows
    /\ IF m # None /\ ~Stale(m) /\ rows[m].status = "complete"
       THEN /\ tasks' = Stop(tasks, t)
            /\ resp' = Resp("create", StatusCode(m), m)
       ELSE /\ tasks' = Move(tasks, t, At(t, next))
            /\ resp' = IF m # None /\ Stale(m)
                       THEN Recycling(Resp("create", 0, None), m)
                       ELSE NoResp
    /\ UNCHANGED <<audio, analysis, logs, nextId, limit, side>>

\* The dedup step shared by both lookups of create_analysis_youtube: a
\* stale match is recycled and forgotten; a match that is not "failed" is
\* returned; otherwise the handler goes on to `next`.
CreateDedup(t, m, next) ==
    /\ m # None /\ Stale(m) => LockFree
    /\ rows' = IF m # None /\ Stale(m) THEN delete_job(m) ELSE rows
    /\ IF m # None /\ ~Stale(m) /\ rows[m].status # "failed"
       THEN /\ tasks' = Stop(tasks, t)
            /\ resp' = Resp("create", StatusCode(m), m)
       ELSE /\ tasks' = Move(tasks, t, At(t, next))
            /\ resp' = IF m # None /\ Stale(m)
                       THEN Recycling(Resp("create", 0, None), m)
                       ELSE NoResp
    /\ UNCHANGED <<audio, analysis, logs, nextId, limit, side>>

\* if track_title and track_artist: get_job_by_track ...
CreateLookupTrack(t) ==
    /\ t.kind = "create" /\ t.pc = "track"
    /\ CreateDedup(t, Match(WithTrack(t.track)), "video")

\* existing = get_job_by_youtube_id(DB_PATH, youtube_id) ...
CreateLookupVideo(t) ==
    /\ t.kind = "create" /\ t.pc = "video"
    /\ CreateDedup(t, Match(WithVideo(VideoA)), "insert")

\* job_id = uuid.uuid4().hex; create_job(status="downloading", input_path
\* "", is_user_supplied=int(is_user_supplied));
\* background_tasks.add_task(_download_youtube_audio, ...)
CreateInsert(t) ==
    /\ t.kind = "create" /\ t.pc = "insert"
    /\ LockFree
    /\ LET j == nextId + 1 IN
       /\ rows' = create_job(j, "downloading", FALSE, t.track, VideoA, t.origin = "user")
       /\ nextId' = j
       /\ tasks' = Move(tasks, t, Fetcher(j, "create"))
       /\ resp' = Resp("create", 202, j)
    /\ UNCHANGED <<audio, analysis, logs, limit, side>>

\* ----------------------------------------------------------------- repair
\* repair_job up to the branch: get_job, the early returns, the two file
\* checks (with update_job_input_path when the row names no audio file but
\* one is on disk)
RepairRequest(j) ==
    /\ ThreadFree
    /\ IF ~Exists(j)
       THEN /\ resp' = Resp("repair", 404, None)
            /\ UNCHANGED <<rows, tasks>>
       ELSE IF rows[j].status \in {"downloading", "queued", "processing"}
       THEN /\ resp' = Resp("repair", 202, j)
            /\ UNCHANGED <<rows, tasks>>
       ELSE IF j \in audio /\ j \notin analysis
       THEN /\ ~rows[j].input => LockFree
            /\ rows' = IF rows[j].input THEN rows ELSE update_job_input_path(j)
            /\ tasks' = Start(tasks, Task("repair", "progress", j, TRUE,
                                          NoTrack, "queue", 0))
            /\ resp' = NoResp
       ELSE IF j \notin audio
       THEN IF rows[j].video = NoVideo
            THEN /\ resp' = Resp("repair", 404, None)
                 /\ UNCHANGED <<rows, tasks>>
            ELSE /\ tasks' = Start(tasks, Task("repair", "progress", j, FALSE,
                                               NoTrack, "download", 0))
                 /\ resp' = NoResp
                 /\ UNCHANGED rows
       ELSE /\ resp' = Resp("repair", 200, j)
            /\ UNCHANGED <<rows, tasks>>
    /\ UNCHANGED <<audio, analysis, logs, nextId, limit, side>>

\* repair_job storing 25 on both branches
RepairProgress_Always25(t) ==
    /\ t.kind = "repair" /\ t.pc = "progress"
    /\ LockFree
    /\ rows' = set_job_progress(t.job, 25)
    /\ tasks' = Move(tasks, t, At(t, "status"))
    /\ resp' = NoResp
    /\ UNCHANGED <<audio, analysis, logs, nextId, limit, side>>

\* set_job_progress(DB_PATH, job_id, 25) before re-queueing,
\* set_job_progress(DB_PATH, job_id, 0) before re-downloading
RepairProgress(t) ==
    /\ t.kind = "repair" /\ t.pc = "progress"
    /\ LockFree
    /\ rows' = set_job_progress(t.job, IF t.origin = "queue" THEN 25 ELSE 0)
    /\ tasks' = Move(tasks, t, At(t, "status"))
    /\ resp' = NoResp
    /\ UNCHANGED <<audio, analysis, logs, nextId, limit, side>>

\* set_job_status(.., "queued", None), or set_job_status(.., "downloading",
\* None) and background_tasks.add_task(_download_youtube_audio, ...); the
\* handler answers with the row it reads back
RepairStatus(t) ==
    /\ t.kind = "repair" /\ t.pc = "status"
    /\ LockFree
    /\ rows' = set_job_status(t.job, IF t.origin = "queue" THEN "queued" ELSE "downloading")
    /\ tasks' = IF t.origin = "queue"
                THEN Stop(tasks, t)
                ELSE Move(tasks, t, Fetcher(t.job, "repair"))
    /\ resp' = IF Exists(t.job) THEN Resp("repair", 202, t.job)
                                ELSE Resp("repair", 404, None)
    /\ UNCHANGED <<audio, analysis, logs, nextId, limit, side>>

\* ----------------------------------------------------------------- delete
Keys == {NoKey, AdminKey, OtherKey}

\* has_admin_key = bool(expected_key and provided_key == expected_key),
\* without the test that ADMIN_KEY is set
has_admin_key_Unchecked(key) == key = env.admin_key

\* has_admin_key = bool(expected_key and provided_key == expected_key)
has_admin_key(key) == env.admin_key # NoKey /\ key = env.admin_key

\* within_window: created_at at most 1800 s ago, or the row is complete, its
\* artifact exists and was last written at most 1800 s ago
within_window(j) ==
    \/ ~rows[j].aged
    \/ rows[j].status = "complete" /\ j \in analysis /\ j \notin aged_out

\* delete_job_by_id up to the call of _delete_job_artifacts: get_job, 404
\* when there is no row, 403 when the caller has neither the admin key nor
\* the window
DeleteRequest(j, key) ==
    /\ ThreadFree
    /\ IF ~Exists(j)
       THEN /\ resp' = Resp("delete", 404, None)
            /\ UNCHANGED tasks
       ELSE IF ~(has_admin_key(key) \/ within_window(j))
       THEN /\ resp' = Resp("delete", 403, None)
            /\ UNCHANGED tasks
       ELSE /\ tasks' = Start(tasks, Task("delete", "paths", j, rows[j].input,
                                          NoTrack, "http", 0))
            /\ resp' = NoResp
    /\ UNCHANGED <<rows, audio, analysis, logs, nextId, limit, side>>

\* _delete_job_artifacts: the loop over input_path, output_path and the log
DeletePaths(t) ==
    /\ t.kind = "delete" /\ t.pc = "paths"
    /\ audio' = IF t.inp THEN audio \ {t.job} ELSE audio
    /\ analysis' = analysis \ {t.job}
    /\ logs' = logs \ {t.job}
    /\ tasks' = Move(tasks, t, At(t, "globs"))
    /\ resp' = NoResp
    /\ UNCHANGED <<rows, nextId, limit, side>>

\* _delete_job_artifacts: the globs audio/<id>.* and analysis/<id>.*
DeleteGlobs(t) ==
    /\ t.kind = "delete" /\ t.pc = "globs"
    /\ audio' = audio \ {t.job}
    /\ analysis' = analysis \ {t.job}
    /\ tasks' = Move(tasks, t, At(t, "row"))
    /\ resp' = NoResp
    /\ UNCHANGED <<rows, logs, nextId, limit, side>>

\* delete_job(DB_PATH, job_id) and the 200 answer
DeleteRow(t) ==
    /\ t.kind = "delete" /\ t.pc = "row"
    /\ LockFree
    /\ rows' = delete_job(t.job)
    /\ tasks' = Stop(tasks, t)
    /\ resp' = Resp("delete", 200, t.job)
    /\ UNCHANGED <<audio, analysis, logs, nextId, limit, side>>

\* ------------------------------------------------------------------ time
\* More than 30 s pass in which no row is written.  The age of a row is
\* read by _should_recycle_job alone, and only of a downloading row, so it
\* is kept for those.
Elapse ==
    /\ \E j \in JobIds : rows[j].status = "downloading" /\ ~rows[j].old
    /\ rows' = [j \in JobIds |-> IF rows[j].status = "downloading"
                                 THEN [rows[j] EXCEPT !.old = TRUE]
                                 ELSE rows[j]]
    /\ resp' = NoResp
    /\ UNCHANGED <<audio, analysis, logs, tasks, nextId, limit, side>>

\* ------------------------------------------------------------ the system
Init ==
    /\ rows = [j \in JobIds |-> Absent]
    /\ audio = {}
    /\ analysis = {}
    /\ logs = {}
    /\ tasks = EmptyBag
    /\ nextId = 0
    /\ resp = NoResp
    /\ limit \in Limits
    /\ env = [admin_key |-> AdminKey, upload |-> TRUE, user_youtube |-> FALSE]
    /\ recent = <<>>
    /\ aged_out = {}
    /\ artifact = NoTags
    /\ result = NoResult

Next ==
    \/ ClaimSelect
    \/ \E t \in Running : ClaimUpdate(t)
    \/ \E t \in Running : RunStart(t)
    \/ \E t \in Running : EngineExit0(t)
    \/ \E t \in Running : WorkerProgress100(t)
    \/ \E t \in Running : WorkerComplete(t)
    \/ \E t \in Running : WorkerFail(t)
    \/ Upload
    \/ \E t \in Running, p \in HookValues : FetchHook(t, p)
    \/ \E t \in Running : FetchDownloaded(t)
    \/ \E t \in Running : FetchSetPath(t)
    \/ \E t \in Running : FetchSetProgress(t)
    \/ \E t \in Running : FetchQueued(t)
    \/ \E t \in Running : FetchFail(t)
    \/ \E t \in Running : FetchCleanup(t)
    \/ LookupByVideo
    \/ \E tr \in Tracks : LookupByTrack(tr)
    \/ \E tr \in {NoTrack} \cup Tracks : CreateRequest(tr)
    \/ \E t \in Running : CreateLookupTrack(t)
    \/ \E t \in Running : CreateLookupVideo(t)
    \/ \E t \in Running : CreateInsert(t)
    \/ \E j \in JobIds : RepairRequest(j)
    \/ \E t \in Running : RepairProgress(t)
    \/ \E t \in Running : RepairStatus(t)
    \/ \E j \in JobIds, key \in Keys : DeleteRequest(j, key)
    \/ \E t \in Running : DeletePaths(t)
    \/ \E t \in Running : DeleteGlobs(t)
    \/ \E t \in Running : DeleteRow(t)
    \/ Elapse

Spec == Init /\ [][Next]_vars

\* ------------------------------------------------- a store that has aged
\* The rows a store holds after the pipeline has run for a while, one per
\* status, with the values the pipeline leaves in them.
Stored(j, status, aged) ==
    [status |-> status,
     progress |-> CASE status = "downloading" -> 0
                    [] status = "queued" -> FETCH_DONE_PROGRESS
                    [] status = "processing" -> API_PROGRESS_START
                    [] OTHER -> 100,
     input |-> status # "downloading", video |-> VideoA, track |-> NoTrack,
     old |-> FALSE, created |-> j, aged |-> aged, plays |-> 0, user |-> FALSE]

Statuses == {"downloading", "queued", "processing", "complete"}

\* The API with jobs of any age in the store, and DELETE requests from
\* callers with and without the admin key, ADMIN_KEY set or not.
InitDelete ==
    /\ rows \in [JobIds -> {Absent} \cup
                   {Stored(j, st, ag) : j \in JobIds, st \in Statuses, ag \in BOOLEAN}]
    /\ \A j \in JobIds : Exists(j) => rows[j].created = j
    /\ audio = {j \in JobIds : rows[j].input}
    /\ analysis \in SUBSET {j \in JobIds : rows[j].status \in {"processing", "complete"}}
    /\ aged_out \in SUBSET {j \in analysis : rows[j].aged}
    /\ artifact = NoTags
    /\ result = NoResult
    /\ logs = {}
    /\ tasks = EmptyBag
    /\ nextId = MaxJobs
    /\ resp = NoResp
    /\ limit \in Limits
    /\ env \in [admin_key : {NoKey, AdminKey}, upload : {TRUE}, user_youtube : {FALSE}]
    /\ recent = <<>>

\* 30 minutes pass with no request.
HalfHour ==
    /\ tasks = EmptyBag
    /\ \E j \in JobIds : Exists(j) /\ ~rows[j].aged
    /\ rows' = [j \in JobIds |-> IF Exists(j) THEN [rows[j] EXCEPT !.aged = TRUE]
                                               ELSE rows[j]]
    /\ aged_out' = analysis
    /\ resp' = NoResp
    /\ UNCHANGED <<audio, analysis, logs, tasks, nextId, limit, env, recent, artifact, result>>

NextDelete ==
    \/ \E j \in JobIds, key \in Keys : DeleteRequest(j, key)
    \/ \E t \in Running : DeletePaths(t)
    \/ \E t \in Running : DeleteGlobs(t)
    \/ \E t \in Running : DeleteRow(t)
    \/ HalfHour

SpecDelete == InitDelete /\ [][NextDelete]_vars

\* ------------------------------------------------------------ play counts
\* "UPDATE jobs SET play_count = play_count + 1, updated_at = ? WHERE id = ?"
\* without its WHERE clause
increment_update_AllRows(j) ==
    [k \in JobIds |-> IF Exists(k) THEN [rows[k] EXCEPT !.plays = @ + 1] ELSE rows[k]]

\* increment_job_plays: UPDATE jobs SET play_count = play_count + 1,
\* updated_at = ? WHERE id = ?
increment_update(j) ==
    IF Exists(j) THEN [rows EXCEPT ![j].plays = @ + 1] ELSE rows

\* set_job_play_count with clamped = int(play_count)
clamp_plays_None(n) == n

\* set_job_play_count: clamped = max(0, int(play_count))
clamp_plays(n) == IF n < 0 THEN 0 ELSE n

\* set_job_play_count: UPDATE jobs SET play_count = ?, updated_at = ? WHERE id = ?
set_update(j, n) ==
    IF Exists(j) THEN [rows EXCEPT ![j].plays = clamp_plays(n)] ELSE rows

\* updated_at = now on row j, whose play_count is then n
touch(j, n) ==
    LET rest == SelectSeq(recent, LAMBDA k : k # j)
    IN  IF n > 0 THEN <<j>> \o rest ELSE rest

\* set_play_count's test of the key with `if not expected_key` left out
admin_only_Unconfigured(key) == key = env.admin_key

\* set_play_count: 403 unless ADMIN_KEY is set and the key given equals it
admin_only(key) == env.admin_key # NoKey /\ key # NoKey /\ key = env.admin_key

\* The values a PATCH /api/plays/{id} carries in play_count.
PlayValues == {-1, 0, 2}

\* increment_play_count -> increment_job_plays: the UPDATE; with no row
\* matched, commit, return None, and the route answers 404
IncrementUpdate(j) ==
    /\ ThreadFree
    /\ LockFree
    /\ rows[j].plays < MaxPlays
    /\ rows' = increment_update(j)
    /\ recent' = IF Exists(j) THEN touch(j, rows'[j].plays) ELSE recent
    /\ IF Exists(j)
       THEN /\ tasks' = Start(tasks, Task("plays", "updated", j, FALSE, NoTrack,
                                          "http", rows'[j].plays))
            /\ resp' = NoResp
       ELSE /\ resp' = Resp("plays", 404, None)
            /\ UNCHANGED tasks
    /\ UNCHANGED <<audio, analysis, logs, nextId, limit, env, aged_out, artifact, result>>

\* set_play_count: the key test, then set_job_play_count: the UPDATE; with
\* no row matched, commit, return None, and the route answers 404
SetPlayCount(j, key, n) ==
    /\ ThreadFree
    /\ IF ~admin_only(key)
       THEN /\ resp' = Resp("setplays", 403, None)
            /\ UNCHANGED <<rows, recent, tasks>>
       ELSE /\ LockFree
            /\ rows' = set_update(j, n)
            /\ recent' = IF Exists(j) THEN touch(j, rows'[j].plays) ELSE recent
            /\ IF Exists(j)
               THEN /\ tasks' = Start(tasks, Task("setplays", "updated", j, FALSE,
                                                  NoTrack, "http", rows'[j].plays))
                    /\ resp' = NoResp
               ELSE /\ resp' = Resp("setplays", 404, None)
                    /\ UNCHANGED tasks
    /\ UNCHANGED <<audio, analysis, logs, nextId, limit, env, aged_out, artifact, result>>

\* increment_job_plays / set_job_play_count: SELECT play_count FROM jobs
\* WHERE id = ?, conn.commit(), and the 200 answer with the count read
PlaysSelect(t) ==
    /\ t.kind \in {"plays", "setplays"} /\ t.pc = "updated"
    /\ resp' = IF Exists(t.job)
               THEN Counting(Resp(t.kind, 200, t.job), rows[t.job].plays)
               ELSE Resp(t.kind, 404, None)
    /\ tasks' = Stop(tasks, t)
    /\ UNCHANGED <<rows, audio, analysis, logs, nextId, limit, side>>

\* ------------------------------------------------------------- top tracks
HasTitle(tr) == tr \in Tracks \cup {TitleOnly}
HasArtist(tr) == tr \in Tracks \cup {ArtistOnly}

\* get_top_tracks's WHERE without COALESCE(is_user_supplied, 0) = 0
Eligible_WithUser ==
    {j \in JobIds : /\ Exists(j)
                    /\ HasTitle(rows[j].track) /\ HasArtist(rows[j].track)
                    /\ rows[j].plays > 0}

\* get_top_tracks: the WHERE clause
Eligible ==
    {j \in JobIds : /\ Exists(j)
                    /\ HasTitle(rows[j].track) /\ HasArtist(rows[j].track)
                    /\ ~rows[j].user
                    /\ rows[j].plays > 0}

\* The place of row j in the order of updated_at, newest first.
Place(j) == CHOOSE i \in 1..Len(recent) : recent[i] = j

\* ORDER BY play_count DESC, updated_at DESC
Before(j, k) ==
    \/ rows[j].plays > rows[k].plays
    \/ rows[j].plays = rows[k].plays /\ Place(j) < Place(k)

\* ORDER BY ... LIMIT n over the set S of rows
RECURSIVE Ordered(_, _)
Ordered(S, n) ==
    IF n = 0 \/ S = {} THEN <<>>
    ELSE LET j == CHOOSE j \in S : \A k \in S \ {j} : Before(j, k)
         IN  <<j>> \o Ordered(S \ {j}, n - 1)

get_top_tracks(n) == Ordered(Eligible, n)

\* get_top_songs
TopTracks(n) ==
    /\ resp' = Listing(Resp("top", 200, None), get_top_tracks(n))
    /\ UNCHANGED <<rows, audio, analysis, logs, tasks, nextId, limit, side>>

\* The API over a store of complete jobs: with or without title and artist,
\* user supplied or not, ADMIN_KEY set or not.
InitPlays ==
    /\ rows \in [JobIds -> {Absent} \cup
                   {[Stored(j, "complete", FALSE) EXCEPT !.track = tr, !.user = u] :
                        j \in JobIds, tr \in {NoTrack, TitleOnly, ArtistOnly} \cup Tracks,
                        u \in BOOLEAN}]
    /\ \A j \in JobIds : Exists(j) => rows[j].created = j
    /\ audio = {j \in JobIds : Exists(j)}
    /\ analysis = {j \in JobIds : Exists(j)}
    /\ logs = {}
    /\ tasks = EmptyBag
    /\ nextId = MaxJobs
    /\ resp = NoResp
    /\ limit = [jobs |-> MaxJobs, threads |-> MaxThreads - 1]
    /\ env \in [admin_key : {NoKey, AdminKey}, upload : {TRUE}, user_youtube : {TRUE}]
    /\ recent = <<>>
    /\ aged_out = {}
    /\ artifact = NoTags
    /\ result = NoResult

NextPlays ==
    \/ \E j \in JobIds : IncrementUpdate(j)
    \/ \E j \in JobIds, key \in Keys, n \in PlayValues : SetPlayCount(j, key, n)
    \/ \E t \in Running : PlaysSelect(t)
    \/ \E n \in 1..MaxJobs : TopTracks(n)

SpecPlays == InitPlays /\ [][NextPlays]_vars

\* ------------------------------------------------------ request validation
\* What a POST /api/analysis/youtube carries: youtube_id missing (or empty),
\* not a string, or a string; title and artist absent, not a string, or a
\* non-empty string; is_user_supplied.
Payloads ==
    [video : {"none", "number", "text"}, title : {"none", "number", "text"},
     artist : {"none", "number", "text"}, user : BOOLEAN]

\* create_analysis_youtube's checks without the one on ALLOW_USER_YOUTUBE
create_rejection_AnyUser(p) ==
    IF p.video # "text" THEN 400
    ELSE IF p.title = "number" THEN 400
    ELSE IF p.artist = "number" THEN 400
    ELSE 0

\* create_analysis_youtube: the HTTPException raised before any lookup, 0
\* when none is
create_rejection(p) ==
    IF p.video # "text" THEN 400
    ELSE IF p.title = "number" THEN 400
    ELSE IF p.artist = "number" THEN 400
    ELSE IF p.user /\ ~env.user_youtube THEN 403
    ELSE 0

\* if track_title and track_artist
TrackOf(p) == IF p.title = "text" /\ p.artist = "text" THEN 1 ELSE NoTrack

\* create_analysis_youtube from the request to the first lookup
CreateCall(p) ==
    /\ ThreadFree
    /\ IF create_rejection(p) # 0
       THEN /\ resp' = Resp("create", create_rejection(p), None)
            /\ UNCHANGED tasks
       ELSE /\ IdFree
            /\ tasks' = Start(tasks, Task("create",
                                          IF TrackOf(p) = NoTrack THEN "video" ELSE "track",
                                          None, FALSE, TrackOf(p),
                                          IF p.user THEN "user" ELSE "http", 0))
            /\ resp' = NoResp
    /\ UNCHANGED <<rows, audio, analysis, logs, nextId, limit, side>>

\* What a POST /api/upload carries: no filename, a filename with an
\* extension outside ALLOWED_UPLOAD_EXTS, or an allowed one; a body within
\* MAX_UPLOAD_BYTES or over it.
UploadFiles == [name : {"none", "other", "allowed"}, size : {"fits", "too_large"}]

\* upload_audio: the HTTPException raised before the file is opened, 0 when
\* none is
upload_rejection(u) ==
    IF ~env.upload THEN 403
    ELSE IF u.name = "none" THEN 400
    ELSE IF u.name = "other" THEN 400
    ELSE 0

\* upload_audio up to target_path.open("wb"): the checks, the new id, the
\* file created in the staging directory
UploadCall(u) ==
    /\ ThreadFree
    /\ IF upload_rejection(u) # 0
       THEN /\ resp' = Resp("upload", upload_rejection(u), None)
            /\ UNCHANGED <<audio, tasks, nextId>>
       ELSE /\ IdFree
            /\ audio' = audio \cup {nextId + 1}
            /\ nextId' = nextId + 1
            /\ tasks' = Start(tasks, Task("upload", "streaming", nextId + 1, TRUE,
                                          NoTrack, u.size, 0))
            /\ resp' = NoResp
    /\ UNCHANGED <<rows, analysis, logs, limit, side>>

\* upload_audio: total > MAX_UPLOAD_BYTES: HTTPException 413, caught to
\* unlink the file and raised again
UploadTooLarge(t) ==
    /\ t.kind = "upload" /\ t.pc = "streaming" /\ t.origin = "too_large"
    /\ audio' = audio \ {t.job}
    /\ tasks' = Stop(tasks, t)
    /\ resp' = Resp("upload", 413, None)
    /\ UNCHANGED <<rows, analysis, logs, nextId, limit, side>>

\* upload_audio: the body ended within the limit: create_job, 202
UploadStore(t) ==
    /\ t.kind = "upload" /\ t.pc = "streaming" /\ t.origin = "fits"
    /\ LockFree
    /\ rows' = create_job(t.job, "queued", TRUE, TitleOnly, NoVideo, TRUE)
    /\ tasks' = Stop(tasks, t)
    /\ resp' = Resp("upload", 202, t.job)
    /\ UNCHANGED <<audio, analysis, logs, nextId, limit, side>>

\* The two POST endpoints under every setting of ALLOW_USER_UPLOAD and
\* ALLOW_USER_YOUTUBE, with payloads that pass validation and payloads that
\* do not.
InitRequests ==
    /\ rows = [j \in JobIds |-> Absent]
    /\ audio = {}
    /\ analysis = {}
    /\ logs = {}
    /\ tasks = EmptyBag
    /\ nextId = 0
    /\ resp = NoResp
    /\ limit \in Limits
    /\ env \in [admin_key : {AdminKey}, upload : BOOLEAN, user_youtube : BOOLEAN]
    /\ recent = <<>>
    /\ aged_out = {}
    /\ artifact = NoTags
    /\ result = NoResult

NextRequests ==
    \/ \E p \in Payloads : CreateCall(p)
    \/ \E t \in Running : CreateLookupTrack(t)
    \/ \E t \in Running : CreateLookupVideo(t)
    \/ \E t \in Running : CreateInsert(t)
    \/ \E u \in UploadFiles : UploadCall(u)
    \/ \E t \in Running : UploadTooLarge(t)
    \/ \E t \in Running : UploadStore(t)

SpecRequests == InitRequests /\ [][NextRequests]_vars

\* ------------------------------------------------------- engine progress
\* run_job.map_engine_progress.  scaled is a multiple of 1/50 and never
\* ends in .5, so int(round(scaled)) is the nearest integer.
map_engine_progress(value) ==
    IF value <= ENGINE_PROGRESS_START THEN API_PROGRESS_START
    ELSE IF value >= ENGINE_PROGRESS_END THEN API_PROGRESS_END
    ELSE ((API_PROGRESS_START * (ENGINE_PROGRESS_END - ENGINE_PROGRESS_START)
           + (value - ENGINE_PROGRESS_START) * (API_PROGRESS_END - API_PROGRESS_START)) * 2
          + (ENGINE_PROGRESS_END - ENGINE_PROGRESS_START))
         \div (2 * (ENGINE_PROGRESS_END - ENGINE_PROGRESS_START))

\* run_job, a line "PROGRESS:<v>:..." read from the engine:
\* set_job_progress(map_engine_progress(v)), then progress_state is set
\* under progress_lock.  The engine's own percentage does not go down.
EngineProgress(t, v) ==
    /\ t.kind = "worker" /\ t.pc = "engine"
    /\ v > t.engine
    /\ LockFree
    /\ rows' = set_job_progress(t.job, map_engine_progress(v))
    /\ tasks' = Move(tasks, t, [t EXCEPT !.last = map_engine_progress(v), !.engine = v])
    /\ resp' = NoResp
    /\ UNCHANGED <<audio, analysis, logs, nextId, limit, side>>

\* The bump thread of the run on job j, between its read of progress_state
\* and its set_job_progress
Bumping(j) == {b \in Running : b.kind = "bump" /\ b.job = j}

\* bump_progress, one turn of the loop up to next_value: current is read
\* under progress_lock, the lock is released, and the engine has been
\* silent for more than BUMP_IDLE_S
BumpRead(t) ==
    /\ t.kind = "worker" /\ t.pc = "engine"
    /\ Bumping(t.job) = {}
    /\ t.last < API_PROGRESS_WAIT
    /\ t.last >= API_PROGRESS_START
    /\ t.last < API_PROGRESS_START + MaxBumps
    /\ tasks' = Start(tasks, Task("bump", "read", t.job, FALSE, NoTrack, "thread",
                                  IF t.last + 1 < API_PROGRESS_WAIT THEN t.last + 1
                                  ELSE API_PROGRESS_WAIT))
    /\ resp' = NoResp
    /\ UNCHANGED <<rows, audio, analysis, logs, nextId, limit, side>>

\* bump_progress, the rest of the turn: set_job_progress(next_value), then
\* progress_state is set under progress_lock.  run_job waits for the thread
\* for one second only (progress_thread.join(1.0)), so the write is not
\* tied to the worker's position.
BumpWrite(b) ==
    /\ b.kind = "bump"
    /\ LockFree
    /\ rows' = set_job_progress(b.job, b.last)
    /\ LET run == {t \in Running : t.kind = "worker" /\ t.job = b.job /\ t.pc = "engine"} IN
       tasks' = IF run = {} THEN Stop(tasks, b)
                ELSE LET t == CHOOSE t \in run : TRUE IN
                     Move(Stop(tasks, b), t, [t EXCEPT !.last = b.last])
    /\ resp' = NoResp
    /\ UNCHANGED <<audio, analysis, logs, nextId, limit, side>>

\* A job from its creation to its end with every writer of progress: the
\* fetcher's hook, the worker's engine lines and the worker's bump thread.
\* The download's ratio and the engine's percentage only grow.
NextProgress ==
    \/ Upload
    \/ \E tr \in {NoTrack} \cup Tracks : CreateRequest(tr)
    \/ \E t \in Running : CreateLookupTrack(t)
    \/ \E t \in Running : CreateLookupVideo(t)
    \/ \E t \in Running : CreateInsert(t)
    \/ \E t \in Running, p \in HookValues : p > t.last /\ FetchHook(t, p)
    \/ \E t \in Running : FetchDownloaded(t)
    \/ \E t \in Running : FetchSetPath(t)
    \/ \E t \in Running : FetchSetProgress(t)
    \/ \E t \in Running : FetchQueued(t)
    \/ \E t \in Running : FetchFail(t)
    \/ \E t \in Running : FetchCleanup(t)
    \/ ClaimSelect
    \/ \E t \in Running : ClaimUpdate(t)
    \/ \E t \in Running : RunStart(t)
    \/ \E t \in Running, v \in EngineValues : EngineProgress(t, v)
    \/ \E t \in Running : BumpRead(t)
    \/ \E b \in Running : BumpWrite(b)
    \/ \E t \in Running : EngineExit0(t)
    \/ \E t \in Running : WorkerProgress100(t)
    \/ \E t \in Running : WorkerComplete(t)
    \/ \E t \in Running : WorkerFail(t)

SpecProgress == Init /\ [][NextProgress]_vars

\* ------------------------------------------------- the artifact's track
\* apply_track_metadata writing the job's title and artist only where the
\* artifact has none
overlay_IfAbsent(tags, tr) ==
    [title |-> IF HasTitle(tr) /\ tags.title = Blank THEN FromJob ELSE tags.title,
     artist |-> IF HasArtist(tr) /\ tags.artist = Blank THEN FromJob ELSE tags.artist]

\* apply_track_metadata: if title: track["title"] = title; if artist:
\* track["artist"] = artist
overlay(tags, tr) ==
    [title |-> IF HasTitle(tr) THEN FromJob ELSE tags.title,
     artist |-> IF HasArtist(tr) THEN FromJob ELSE tags.artist]

\* main: apply_track_metadata(job.output_path, job.track_title,
\* job.track_artist), with the title and artist of the Job the claim
\* returned.  Nothing is written when the job has neither or the file is
\* not there.
ApplyTrackMetadata(t) ==
    /\ t.kind = "worker" /\ t.pc = "exited"
    /\ artifact' = IF (HasTitle(t.track) \/ HasArtist(t.track)) /\ t.job \in analysis
                   THEN [artifact EXCEPT ![t.job] = overlay(artifact[t.job], t.track)]
                   ELSE artifact
    /\ tasks' = Move(tasks, t, At(t, "overlaid"))
    /\ resp' = NoResp
    /\ UNCHANGED <<rows, audio, analysis, logs, nextId, limit, env, recent, aged_out, result>>

\* _job_response, complete job: the track title and artist of the payload,
\* taken from the job's columns where the artifact has none
shown(j) ==
    <<IF HasTitle(rows[j].track) /\ artifact[j].title = Blank THEN FromJob
      ELSE artifact[j].title,
      IF HasArtist(rows[j].track) /\ artifact[j].artist = Blank THEN FromJob
      ELSE artifact[j].artist>>

\* get_analysis that writes the filled-in track back to the artifact
GetAnalysis_Persisting(j) ==
    /\ Exists(j) /\ rows[j].status = "complete" /\ j \in analysis
    /\ resp' = Listing(Resp("get", 200, j), shown(j))
    /\ artifact' = [artifact EXCEPT ![j] = [title |-> shown(j)[1], artist |-> shown(j)[2]]]
    /\ UNCHANGED <<rows, audio, analysis, logs, tasks, nextId, limit, env, recent, aged_out, result>>

\* get_analysis: 404 without a row; _job_response otherwise: 202 while the
\* job advances, 200 with error_code analysis_missing when the artifact of
\* a complete job is not there, 200 with the artifact otherwise
GetAnalysis(j) ==
    /\ resp' = IF ~Exists(j) THEN Resp("get", 404, None)
               ELSE IF rows[j].status \in {"queued", "processing", "downloading"}
               THEN Resp("get", 202, j)
               ELSE IF j \notin analysis THEN Resp("analysis_missing", 200, j)
               ELSE Listing(Resp("get", 200, j), shown(j))
    /\ UNCHANGED <<rows, audio, analysis, logs, tasks, nextId, limit, side>>

\* What the engine puts in the track object: title and artist from the
\* audio file's tags, each there or not.
Tags == [title : {Blank, FromTags}, artist : {Blank, FromTags}]

\* A store of queued and complete jobs, with and without title and artist,
\* the artifact of a complete job there or gone; the workers run the queued
\* ones while GET /api/analysis/{id} is called.
InitMetadata ==
    /\ rows \in [JobIds -> {Absent} \cup
                   {[Stored(j, st, FALSE) EXCEPT !.track = tr] :
                        j \in JobIds, st \in {"queued", "complete"},
                        tr \in {NoTrack, TitleOnly, ArtistOnly} \cup Tracks}]
    /\ \A j \in JobIds : Exists(j) => rows[j].created = j
    /\ audio = {j \in JobIds : Exists(j)}
    /\ analysis \in SUBSET {j \in JobIds : rows[j].status = "complete"}
    /\ logs = {}
    /\ tasks = EmptyBag
    /\ nextId = MaxJobs
    /\ resp = NoResp
    /\ limit = [jobs |-> MaxJobs, threads |-> MaxThreads - 1]
    /\ env = [admin_key |-> AdminKey, upload |-> TRUE, user_youtube |-> FALSE]
    /\ recent = <<>>
    /\ aged_out = {}
    /\ artifact \in [JobIds -> Tags]
    /\ \A j \in JobIds : ~Exists(j) => artifact[j] = NoTags[j]
    /\ result = NoResult

NextMetadata ==
    \/ ClaimSelect
    \/ \E t \in Running : ClaimUpdate(t)
    \/ \E t \in Running : RunStart(t)
    \/ \E t \in Running : EngineExit0(t)
    \/ \E t \in Running : ApplyTrackMetadata(t)
    \/ \E t \in Running : t.pc = "overlaid" /\ WorkerProgress100(t)
    \/ \E t \in Running : WorkerComplete(t)
    \/ \E t \in Running : WorkerFail(t)
    \/ \E j \in JobIds : GetAnalysis(j)

SpecMetadata == InitMetadata /\ [][NextMetadata]_vars

\* ----------------------------------------------------- the worker's loop
\* Uploads arrive, the workers run their loop, and jobs are deleted on
\* request.
NextLive ==
    \/ Upload
    \/ ClaimSelect
    \/ \E t \in Running : ClaimUpdate(t)
    \/ \E t \in Running : RunStart(t)
    \/ \E t \in Running : EngineExit0(t)
    \/ \E t \in Running : WorkerProgress100(t)
    \/ \E t \in Running : WorkerComplete(t)
    \/ \E t \in Running : WorkerFail(t)
    \/ \E j \in JobIds : DeleteRequest(j, NoKey)
    \/ \E t \in Running : DeletePaths(t)
    \/ \E t \in Running : DeleteGlobs(t)
    \/ \E t \in Running : DeleteRow(t)

\* One statement of the worker cycle that holds job j: main's while True,
\* with an engine that exits (0 or not)
WorkerStep(j) ==
    \E t \in Running :
        /\ t.job = j
        /\ \/ ClaimUpdate(t) \/ RunStart(t) \/ EngineExit0(t)
           \/ WorkerProgress100(t) \/ WorkerComplete(t) \/ WorkerFail(t)

\* One statement of a DELETE handler on job j
DeleteStep(j) ==
    \E t \in Running : t.job = j /\ (DeletePaths(t) \/ DeleteGlobs(t) \/ DeleteRow(t))

\* A worker that is running calls claim_next_job again and again (a sleep
\* of POLL_INTERVAL_S when it got None), every statement of a cycle and of
\* a request handler is reached in the end.  Requests come when they come.
FairLive ==
    /\ WF_vars(ClaimSelect)
    /\ \A j \in JobIds : WF_vars(WorkerStep(j))
    /\ \A j \in JobIds : WF_vars(DeleteStep(j))

SpecLive == Init /\ [][NextLive]_vars /\ FairLive

\* ------------------------------------------------- the analyzer's events
\* Times are whole numbers of one grid step; the tatums, which halve a beat,
\* are kept in steps of 1/tatum_divisions of it.
MaxTime == 4            \* the longest track, and the latest boundary time
MaxBeats == 3           \* beat times the tracker returns
MaxPeaks == 2           \* onset peaks
time_signature == 2     \* cfg.time_signature: every second beat starts a bar
tatum_divisions == 2    \* cfg.tatum_divisions
beat_snap_window_s == 1 \* cfg.beat_snap_window_s, in grid steps

\* The elements of a set of times in increasing order
SortedSeq(S) ==
    CHOOSE s \in [1..Cardinality(S) -> S] :
        \A i, k \in 1..Cardinality(S) : i < k => s[i] < s[k]

Dist(a, b) == IF a < b THEN b - a ELSE a - b

\* np.argmin(np.abs(peak_times - t)): the first index of the least distance
argmin_peak(peak_times, t) ==
    CHOOSE i \in DOMAIN peak_times :
        /\ \A k \in DOMAIN peak_times :
              Dist(peak_times[i], t) <= Dist(peak_times[k], t)
        /\ \A k \in 1..(i - 1) :
              Dist(peak_times[k], t) > Dist(peak_times[i], t)

\* snap_times_to_peaks: each time moves to its nearest peak when that one is
\* within the window, and stays otherwise
snap_times_to_peaks(times, peak_times, window_s) ==
    IF times = <<>> \/ peak_times = <<>> THEN times
    ELSE [i \in DOMAIN times |->
            LET p == peak_times[argmin_peak(peak_times, times[i])]
            IN  IF Dist(p, times[i]) <= window_s THEN p ELSE times[i]]

\* _events_from_times: one event from each time to the next one, the last
\* to the track's end; a time whose end is not after it gives no event
RECURSIVE events_from_times(_, _)
events_from_times(times, duration) ==
    IF times = <<>> THEN <<>>
    ELSE LET start == Head(times)
             end == IF Len(times) > 1 THEN times[2] ELSE duration
             rest == events_from_times(Tail(times), duration)
         IN  IF end <= start THEN rest
             ELSE <<[start |-> start, duration |-> end - start]>> \o rest

Max(a, b) == IF a > b THEN a ELSE b
Min(a, b) == IF a < b THEN a ELSE b

\* _fix_event_end: the last event is made to end with the track
fix_event_end(events, duration) ==
    IF events = <<>> THEN events
    ELSE LET last == events[Len(events)]
             start == IF last.start < 0 THEN 0 ELSE last.start
         IN  [events EXCEPT ![Len(events)] =
                 [start |-> start, duration |-> Max(0, duration - start)]]

\* beat_times[:: cfg.time_signature]
every_nth(times, n) ==
    [i \in 1..((Len(times) + n - 1) \div n) |-> times[(i - 1) * n + 1]]

\* _compute_beats, the tatum times: tatum_divisions times in every beat that
\* ends after it starts, in steps of 1/tatum_divisions
RECURSIVE tatum_times_of(_, _)
tatum_times_of(beat_times, duration) ==
    IF beat_times = <<>> THEN <<>>
    ELSE LET start == Head(beat_times)
             end == IF Len(beat_times) > 1 THEN beat_times[2] ELSE duration
             rest == tatum_times_of(Tail(beat_times), duration)
         IN  IF end <= start THEN rest
             ELSE [t \in 1..tatum_divisions |->
                      tatum_divisions * start + (t - 1) * (end - start)] \o rest

\* _compute_segments, the loop over seg_times: one segment between each time
\* and the next
RECURSIVE segments_from_times(_)
segments_from_times(seg_times) ==
    IF Len(seg_times) < 2 THEN <<>>
    ELSE LET start == seg_times[1]
             end == seg_times[2]
             rest == segments_from_times(Tail(seg_times))
         IN  IF end <= start THEN rest
             ELSE <<[start |-> start, duration |-> end - start]>> \o rest

\* np.interp(norm, src, dst) for src = [0, 1] and norm = start / duration
\* held in [0, 1]; the maps drawn make the division exact
start_offset(start, duration, dst) ==
    dst[1] + ((dst[2] - dst[1]) * Min(duration, Max(0, start))) \div duration

\* _compute_segments, the start time-warp: every segment's start moves by
\* the offset of the map and is held in [0, duration]
warp_starts(segments, duration, dst) ==
    [i \in DOMAIN segments |->
        [segments[i] EXCEPT !.start =
            Min(duration, Max(0, segments[i].start
                                   + start_offset(segments[i].start, duration, dst)))]]

\* No start_offset_map_src and start_offset_map_dst configured
NoMap == <<>>

\* The maps followed: a constant offset, or one growing from 0 to -duration
OffsetMaps(duration) ==
    {<<a, a>> : a \in {-1, 1}} \cup {<<0, 0 - duration>>}

\* The times of n or fewer boundaries within 0..hi, in increasing order
TimesUpTo(hi, n) ==
    {SortedSeq(S) : S \in {T \in SUBSET (0..hi) : Cardinality(T) <= n}}

\* _compute_beats: the tracker's beat times are snapped to the onset peaks;
\* beats, bars and tatums are built from the snapped times
ComputeBeats ==
    /\ result.stage = "loaded"
    /\ \E beat_times \in TimesUpTo(MaxTime, MaxBeats),
          onset_peaks \in TimesUpTo(MaxTime, MaxPeaks) :
          LET snapped == snap_times_to_peaks(beat_times, onset_peaks,
                                             beat_snap_window_s)
              beats == events_from_times(snapped, result.duration)
              tatum_times == tatum_times_of(snapped, result.duration)
          IN  result' = [result EXCEPT
                  !.stage = "beats",
                  !.beat_times = snapped,
                  !.beats = beats,
                  !.bars = IF beats = <<>> THEN <<>>
                           ELSE fix_event_end(
                                    events_from_times(
                                        every_nth(snapped, time_signature),
                                        result.duration),
                                    result.duration),
                  !.tatums = IF beats = <<>> \/ tatum_times = <<>> THEN <<>>
                             ELSE fix_event_end(
                                      events_from_times(
                                          tatum_times,
                                          tatum_divisions * result.duration),
                                      tatum_divisions * result.duration)]
    /\ UNCHANGED <<rows, audio, analysis, logs, tasks, nextId, resp, limit,
                   env, recent, aged_out, artifact>>

\* _compute_segments: the segments between the unique boundary times, the
\* start time-warp when a map is configured, and the last segment's end
ComputeSegments ==
    /\ result.stage = "beats"
    /\ \E seg_times \in TimesUpTo(result.duration, MaxBeats + 1),
          dst \in {NoMap} \cup OffsetMaps(result.duration),
          segment_include_bounds \in BOOLEAN :
          LET built == segments_from_times(seg_times)
              warped == IF dst # NoMap /\ result.duration > 0
                        THEN warp_starts(built, result.duration, dst)
                        ELSE built
          IN  result' = [result EXCEPT
                  !.stage = "segments",
                  !.seg_times = seg_times,
                  !.start_offset_map_dst = dst,
                  !.segments = IF segment_include_bounds
                               THEN fix_event_end(warped, result.duration)
                               ELSE warped]
    /\ UNCHANGED <<rows, audio, analysis, logs, tasks, nextId, resp, limit,
                   env, recent, aged_out, artifact>>

\* A track of some duration is loaded; nothing else runs.
InitEvents ==
    /\ rows = [j \in JobIds |-> Absent]
    /\ audio = {}
    /\ analysis = {}
    /\ logs = {}
    /\ tasks = EmptyBag
    /\ nextId = 0
    /\ resp = NoResp
    /\ limit = [jobs |-> 0, threads |-> 0]
    /\ env = [admin_key |-> NoKey, upload |-> FALSE, user_youtube |-> FALSE]
    /\ recent = <<>>
    /\ aged_out = {}
    /\ artifact = NoTags
    /\ result \in {[stage |-> "loaded", duration |-> d, beat_times |-> <<>>,
                    beats |-> <<>>, bars |-> <<>>, tatums |-> <<>>,
                    seg_times |-> <<>>, start_offset_map_dst |-> NoMap,
                    segments |-> <<>>] : d \in (MaxTime - 1)..MaxTime}

NextEvents ==
    \/ ComputeBeats
    \/ ComputeSegments

SpecEvents == InitEvents /\ [][NextEvents]_vars

\* ================================================================ claims
Workers == {t \in Running : t.kind = "worker"}
\* The worker cycles that hold job j: claim_next_job has returned j to them.
Holders(j) == {t \in Workers : t.job = j /\ t.pc # "selected"}
HolderCount(j) ==
    BagCardinality([t \in Holders(j) |-> tasks[t]])

\* C1: claim_next_job hands a queued row to one caller only: every claim
\* that commits turns a row that is queued at that moment into processing,
\* and no second caller has the same row open; a caller that finds the row
\* taken gets None.
ClaimExclusive ==
    [][\A t \in Running :
         ClaimUpdate(t) =>
            /\ rows[t.job].status = "queued"
            /\ rows'[t.job].status = "processing"
            /\ tasks[t] = 1
            /\ \A u \in Workers : u.pc = "selected" => u = t]_vars

\* C1 witness: two callers, one queued job: one holds it, the other was
\* just given None.
ClaimRaceSeen ==
    /\ resp = Resp("claim", 0, None)
    /\ nextId = 1
    /\ rows[1].status = "processing"
    /\ HolderCount(1) = 1

\* C6: claim_next_job returns None and changes nothing exactly when no row
\* is queued; otherwise it takes the queued row with the smallest
\* created_at, sets that row to processing with progress 0, returns it and
\* leaves every other row as it was; created_at never changes while a row
\* lives.
ClaimNextOldest ==
    [][/\ ClaimSelect =>
            /\ rows' = rows
            /\ (resp' = Resp("claim", 0, None)) <=> (Queued = {})
            /\ Queued # {} =>
                 \E t \in BagToSet(tasks') :
                    /\ t.kind = "worker" /\ t.pc = "selected"
                    /\ tasks' = Start(tasks, t)
                    /\ t.job \in Queued
                    /\ \A k \in Queued : rows[t.job].created <= rows[k].created
       /\ \A t \in Running :
            ClaimUpdate(t) =>
               /\ t.job \in Queued
               /\ \A k \in Queued : rows[t.job].created <= rows[k].created
               /\ rows'[t.job] = [rows[t.job] EXCEPT !.status = "processing",
                                                     !.progress = 0]
               /\ \A k \in JobIds \ {t.job} : rows'[k] = rows[k]
               /\ At(t, "claimed") \in BagToSet(tasks')
       /\ \A j \in JobIds :
            Exists(j) /\ rows'[j].status # "absent" =>
               rows'[j].created = rows[j].created]_vars

\* C6 witness: two rows are queued and a caller has the older one open.
OlderOfTwoSelected ==
    /\ Queued = {1, 2}
    /\ \E t \in Workers : t.pc = "selected" /\ t.job = 1

\* C2: a row whose status is processing is held by exactly one worker
\* cycle, never by two and never by none.
ProcessingHasOneWorker ==
    \A j \in JobIds : rows[j].status = "processing" => HolderCount(j) = 1

\* C5: a row whose status is complete has its artifact on disk.
CompleteHasArtifact ==
    \A j \in JobIds : rows[j].status = "complete" => j \in analysis

\* C7: no two live rows carry the same video id.
OneRowPerVideo ==
    \A j, k \in JobIds :
        Exists(j) /\ Exists(k) /\ rows[j].video = VideoA /\ rows[k].video = VideoA
            => j = k

\* The order downloading, queued, processing, complete | failed.
Rank(status) ==
    CASE status = "downloading" -> 1
      [] status = "queued" -> 2
      [] status = "processing" -> 3
      [] OTHER -> 4

MovesBack(j) ==
    /\ Exists(j)
    /\ rows'[j].status # "absent"
    /\ Rank(rows'[j].status) < Rank(rows[j].status)

\* C3 as stated: no step moves a living row from a later status back to an
\* earlier one.
StatusNeverMovesBack == [][\A j \in JobIds : ~MovesBack(j)]_vars

\* C3 amended: a living row is moved back only by repair_job's
\* set_job_status and by the last statement of the fetcher run that repair
\* scheduled; claim_next_job, the worker and the fetcher run started by
\* create_analysis_youtube only move a row forward.
OnlyRepairMovesBack ==
    [][\A j \in JobIds :
         MovesBack(j) =>
            \E t \in Running :
               /\ t.job = j
               /\ \/ t.kind = "repair" /\ RepairStatus(t)
                  \/ t.kind = "fetch" /\ t.origin = "repair" /\ FetchQueued(t)]_vars

\* C3 witness: repair has sent a job that was complete back to downloading
\* and the fetcher run it scheduled is under way.
RepairRedownloads ==
    /\ rows[1].status = "downloading"
    /\ \E t \in Running : t.kind = "fetch" /\ t.origin = "repair" /\ t.job = 1

StaleAsSpecified(j) ==
    /\ rows[j].status = "downloading"
    /\ \/ j \in logs
       \/ rows[j].progress >= 25 /\ rows[j].old

\* C8: a create-from-video whose track identity (video id, title, artist)
\* is that of the one row the store holds for the video, that row not being
\* stale, creates nothing and answers with that row's id, whatever the
\* status of the row.
SecondCreateReturnsFirst ==
    [][\A t \in Running : \A j \in JobIds :
         /\ t.kind = "create"
         /\ CreateLookupTrack(t) \/ CreateLookupVideo(t)
         /\ WithVideo(VideoA) = {j}
         /\ rows[j].track = t.track
         /\ ~StaleAsSpecified(j)
         => /\ resp'.op = "create" /\ resp'.id = j
            /\ rows' = rows
            /\ nextId' = nextId
            /\ tasks' = Stop(tasks, t)]_vars

\* C8 witness: the second call was answered with the id of the first job,
\* which is complete, and no second id was handed out.
SecondCreateAnswered ==
    /\ resp = Resp("create", 200, 1)
    /\ rows[1].status = "complete"
    /\ nextId = 1

\* What a dedup lookup that matched m may do to the table: delete m when m
\* is stale, nothing otherwise.
RecyclesIfStale(m) ==
    IF m # None /\ StaleAsSpecified(m)
    THEN rows' = [rows EXCEPT ![m] = Absent]
    ELSE rows' = rows

LookupStepOn(m) ==
    \/ LookupByVideo /\ m = Match(WithVideo(VideoA))
    \/ \E tr \in Tracks : LookupByTrack(tr) /\ m = Match(WithTrack(tr))
    \/ \E t \in Running : CreateLookupTrack(t) /\ m = Match(WithTrack(t.track))
    \/ \E t \in Running : CreateLookupVideo(t) /\ m = Match(WithVideo(VideoA))

\* A downloading row that nothing has written for more than 30 s.
Stalled(j) == rows[j].status = "downloading" /\ rows[j].old

\* C10 as stated: a lookup that matches a stalled downloading job removes
\* the row, at whatever progress the download stalled.
StalledAlwaysRecycled ==
    [][\A m \in JobIds :
         LookupStepOn(m) /\ Stalled(m) => rows'[m].status = "absent"]_vars

\* C10 amended: a lookup that matches a stalled downloading job removes the
\* row when its stored progress is 25 or more (or its failure log exists);
\* a job stalled below 25 with no failure log is left in place and answered
\* as the existing job.
StalledRecycledFrom25 ==
    [][\A m \in JobIds :
         LookupStepOn(m) /\ Stalled(m) =>
            IF rows[m].progress >= 25 \/ m \in logs
            THEN rows'[m].status = "absent" /\ resp'.id # m
            ELSE rows' = rows /\ resp'.id = m /\ resp'.code = 202]_vars

\* C10 witness: job 1 stalled below 25; GET by-youtube answered 202 with it.
StalledBelow25Kept ==
    /\ resp = Resp("by_video", 202, 1)
    /\ Stalled(1)
    /\ rows[1].progress < 25
    /\ 1 \notin logs

\* C11 as stated: after a failed fetch the job has no row, its failure log
\* is on disk, and it has neither staging audio nor a result artifact.
FetchFailureLeavesLog ==
    [][\A t \in Running :
         FetchCleanup(t) =>
            /\ rows'[t.job].status = "absent"
            /\ t.job \in logs'
            /\ t.job \notin audio'
            /\ t.job \notin analysis']_vars

\* A DELETE of job j has gone past its removal of logs/<j>.log, or has
\* already removed the row.
DeleteTookLog(j) ==
    \/ ~Exists(j)
    \/ \E d \in Running : d.kind = "delete" /\ d.job = j /\ d.pc \in {"globs", "row"}

\* C11 amended: every failing fetch writes logs/<id>.log first, and when
\* its cleanup ends the job has no row, no staging audio and no result
\* artifact; the log is still there unless a DELETE of the same job removed
\* it in between.
FetchFailureCleansUp ==
    [][\A t \in Running :
         /\ FetchFail(t) => t.job \in logs'
         /\ FetchCleanup(t) =>
              /\ rows'[t.job].status = "absent"
              /\ t.job \notin audio'
              /\ t.job \notin analysis'
              /\ t.job \in logs' \/ DeleteTookLog(t.job)]_vars

\* C11 witness: the fetch of job 1 failed, its cleanup has run and the log
\* is there.
FetchFailed ==
    /\ resp = Resp("fetch_failed", 0, 1)
    /\ ~Exists(1)
    /\ 1 \in logs
    /\ 1 \notin audio

\* No request, fetcher run or worker cycle is in flight.
Quiescent == tasks = EmptyBag

\* C12: in a quiescent state a job id without a row has neither staging
\* audio nor a result artifact on disk.
RemovedJobLeavesNoFiles ==
    Quiescent =>
        \A j \in JobIds : ~Exists(j) => j \notin audio /\ j \notin analysis

\* C13: a DELETE on an existing job goes through exactly when the caller's
\* key equals a set, non-empty ADMIN_KEY, or the job was created at most 30
\* minutes ago, or the job is complete and its artifact was written at most
\* 30 minutes ago; it then ends with 200.  Otherwise it is answered 403 and
\* neither the row nor any file of the job changes.
DeleteAuthorised ==
    [][/\ \A j \in JobIds, key \in Keys :
            DeleteRequest(j, key) /\ Exists(j) =>
               IF \/ env.admin_key # NoKey /\ key = env.admin_key
                  \/ ~rows[j].aged
                  \/ rows[j].status = "complete" /\ j \in analysis /\ j \notin aged_out
               THEN /\ \E t \in BagToSet(tasks') :
                         t.kind = "delete" /\ t.job = j /\ tasks' = Start(tasks, t)
                    /\ resp'.code # 403
               ELSE /\ resp' = Resp("delete", 403, None)
                    /\ UNCHANGED <<rows, audio, analysis, logs, tasks>>
       /\ \A t \in Running :
            DeleteRow(t) => resp' = Resp("delete", 200, t.job) /\ ~Exists(t.job)']_vars

\* C13 witness: the one job in the store is complete, it and its artifact
\* are over 30 minutes old, ADMIN_KEY is set, and a DELETE was answered 403.
DeleteDenied ==
    /\ resp = Resp("delete", 403, None)
    /\ env.admin_key = AdminKey
    /\ rows[1].status = "complete" /\ rows[1].aged
    /\ 1 \in analysis /\ 1 \in aged_out
    /\ ~Exists(2)

\* C14: every increment_plays on an existing job adds exactly one to that
\* job's play_count in one statement, touching no other row, and answers
\* with the count its own UPDATE produced: no other write comes between its
\* UPDATE and its SELECT, so n calls raise the count by n and are given n
\* different counts.
IncrementsAtomic ==
    [][/\ \A j \in JobIds :
            IncrementUpdate(j) /\ Exists(j) =>
               /\ rows'[j] = [rows[j] EXCEPT !.plays = rows[j].plays + 1]
               /\ \A k \in JobIds \ {j} : rows'[k] = rows[k]
       /\ \A t \in Running :
            t.kind = "plays" /\ PlaysSelect(t) =>
               /\ resp'.code = 200 /\ resp'.id = t.job
               /\ resp'.count = t.last
               /\ rows[t.job].plays = t.last]_vars

\* C14 witness: with no admin key set, two increments on job 1 have been
\* answered, the second with 2.
TwoIncrementsCounted ==
    /\ env.admin_key = NoKey
    /\ resp = Counting(Resp("plays", 200, 1), 2)
    /\ rows[1].plays = 2

\* C15: increment_plays, and set_play_count from the admin, on an id with
\* no row are answered 404, create no row and change no row.
AbsentIdChangesNothing ==
    [][\A j \in JobIds :
         ~Exists(j) =>
            /\ IncrementUpdate(j) =>
                 resp' = Resp("plays", 404, None) /\ rows' = rows /\ tasks' = tasks
            /\ \A key \in Keys, n \in PlayValues :
                 SetPlayCount(j, key, n) /\ env.admin_key # NoKey /\ key = env.admin_key =>
                    resp' = Resp("setplays", 404, None) /\ rows' = rows /\ tasks' = tasks]_vars

\* C15 witness: job 2 has been played, and an increment on the absent id 1
\* was answered 404.
AbsentIdAnswered404 ==
    /\ resp = Resp("plays", 404, None)
    /\ ~Exists(1)
    /\ Exists(2) /\ rows[2].plays = 1

\* C16 as stated: play_count is never negative and never decreases while
\* the row lives.
PlayCountNeverDecreases ==
    [][\A j \in JobIds :
         /\ rows'[j].plays >= 0
         /\ Exists(j) /\ rows'[j].status # "absent" =>
               rows'[j].plays >= rows[j].plays]_vars

\* C16 amended: play_count is never negative, and the only step that
\* lowers it is a set_play_count made with the admin key.
PlayCountLoweredOnlyBySet ==
    [][\A j \in JobIds :
         /\ rows'[j].plays >= 0
         /\ Exists(j) /\ rows'[j].status # "absent" /\ rows'[j].plays < rows[j].plays =>
               \E n \in PlayValues :
                  /\ SetPlayCount(j, AdminKey, n)
                  /\ env.admin_key = AdminKey
                  /\ n < rows[j].plays]_vars

\* C16 witness: the admin has set the count of job 1 to 0 and was answered
\* 0; job 2 keeps its plays.
PlayCountReset ==
    /\ resp = Counting(Resp("setplays", 200, 1), 0)
    /\ rows[1].plays = 0
    /\ rows[2].plays > 0
    /\ recent = <<2>>

\* C17: a PATCH whose key is not the set, non-empty ADMIN_KEY is answered
\* 403 and changes nothing; with the key, the count stored for an existing
\* job becomes max(0, n), no other row changes, and that value is returned.
SetPlayCountAdminOnly ==
    [][/\ \A j \in JobIds, key \in Keys, n \in PlayValues :
            SetPlayCount(j, key, n) =>
               IF env.admin_key = NoKey \/ key # env.admin_key
               THEN resp' = Resp("setplays", 403, None) /\ rows' = rows /\ tasks' = tasks
               ELSE Exists(j) =>
                       /\ rows'[j] = [rows[j] EXCEPT !.plays = IF n > 0 THEN n ELSE 0]
                       /\ \A k \in JobIds \ {j} : rows'[k] = rows[k]
       /\ \A t \in Running :
            t.kind = "setplays" /\ PlaysSelect(t) =>
               /\ resp'.code = 200 /\ resp'.id = t.job
               /\ resp'.count = t.last
               /\ rows[t.job].plays = t.last]_vars

\* C17 witness: ADMIN_KEY is not set, job 1 has been played once, and a
\* PATCH was answered 403.
SetPlayCountRefused ==
    /\ env.admin_key = NoKey
    /\ resp = Resp("setplays", 403, None)
    /\ rows[1].plays = 1

\* Row a was updated after row b.
UpdatedLater(a, b) ==
    \E i, k \in 1..Len(recent) : i < k /\ recent[i] = a /\ recent[k] = b

\* Row a comes before row b by play_count descending, then updated_at
\* descending.
Outranks(a, b) ==
    \/ rows[a].plays > rows[b].plays
    \/ rows[a].plays = rows[b].plays /\ UpdatedLater(a, b)

\* C18: top_tracks(n) lists, without repetition, the first n of the rows
\* that have a title, an artist, is_user_supplied false and play_count > 0,
\* in the order play_count descending, updated_at descending.
TopTracksOrdered ==
    [][\A n \in 1..MaxJobs :
         TopTracks(n) =>
            LET out == resp'.items
                F == {j \in JobIds :
                        /\ Exists(j)
                        /\ rows[j].track \notin {NoTrack, TitleOnly, ArtistOnly}
                        /\ ~rows[j].user
                        /\ rows[j].plays > 0}
            IN  /\ Len(out) = IF n < Cardinality(F) THEN n ELSE Cardinality(F)
                /\ \A i \in 1..Len(out) : out[i] \in F
                /\ \A i, k \in 1..Len(out) : i < k => Outranks(out[i], out[k])
                /\ \A j \in F :
                     (\A i \in 1..Len(out) : out[i] # j) =>
                        \A i \in 1..Len(out) : Outranks(out[i], j)]_vars

\* C18 witness: two listed rows with equal counts, the one updated last
\* first.
TopTracksTieListed ==
    /\ resp.op = "top"
    /\ resp.items = <<2, 1>>
    /\ rows[1].plays = rows[2].plays

\* C19: a create-from-video whose video id is missing or not a string,
\* whose title or artist is not a string, or that is user supplied while
\* ALLOW_USER_YOUTUBE is off, and an upload while ALLOW_USER_UPLOAD is off,
\* with no or a disallowed extension, or over the size ceiling, is answered
\* 4xx, creates no row and leaves no staging audio file of its own.
RejectedRequestLeavesNothing ==
    [][/\ \A p \in Payloads :
            /\ CreateCall(p)
            /\ \/ p.video \in {"none", "number"}
               \/ p.title = "number" \/ p.artist = "number"
               \/ p.user /\ ~env.user_youtube
            => /\ resp'.code \in {400, 403}
               /\ UNCHANGED <<rows, audio, tasks, nextId>>
       /\ \A u \in UploadFiles :
            UploadCall(u) /\ (~env.upload \/ u.name \in {"none", "other"}) =>
               /\ resp'.code \in {400, 403}
               /\ UNCHANGED <<rows, audio, tasks, nextId>>
       /\ \A t \in Running :
            t.kind = "upload" /\ t.origin = "too_large" =>
               /\ ~UploadStore(t)
               /\ UploadTooLarge(t) =>
                    /\ resp'.code = 413
                    /\ rows' = rows /\ ~Exists(t.job)
                    /\ t.job \notin audio']_vars

\* C19 witness: an upload over the ceiling was answered 413: the id it took
\* has no row and no file.
OversizeUploadRefused ==
    /\ resp = Resp("upload", 413, None)
    /\ nextId = 1
    /\ ~Exists(1)
    /\ 1 \notin audio
    /\ tasks = EmptyBag

\* C20: while a job stays downloading, and while it stays processing, its
\* stored progress never goes down, whatever the order of the fetcher's
\* hook, the worker's engine lines and the worker's bump thread; while
\* downloading it is within 0..25.
ProgressNeverDecreases ==
    /\ [][\A j \in JobIds :
            /\ rows[j].status \in {"downloading", "processing"}
            /\ rows'[j].status = rows[j].status
            => rows'[j].progress >= rows[j].progress]_vars
    /\ [](\A j \in JobIds :
            rows[j].status = "downloading" => rows[j].progress \in 0..25)

\* C21: a row whose status is complete has progress 100.
CompleteHasProgress100 ==
    \A j \in JobIds : rows[j].status = "complete" => rows[j].progress = 100

\* C22: a fetcher stores progress 25 and status queued on its row only
\* after the row's input_path has been written, and in every reachable
\* state a queued row has a non-empty input_path, whether it was queued by
\* upload_audio, by the fetcher or by repair_job.
QueuedHasInputPath ==
    /\ [][\A t \in Running :
            (FetchSetProgress(t) \/ FetchQueued(t)) /\ Exists(t.job)
            => rows[t.job].input]_vars
    /\ [](\A j \in JobIds : rows[j].status = "queued" => rows[j].input)

\* C22 witness: job 1 came in by video id, its fetcher has finished, and
\* the row is queued at 25 with its input_path set.
FetchedJobQueued ==
    /\ rows[1].status = "queued"
    /\ rows[1].video = VideoA
    /\ rows[1].input
    /\ rows[1].progress = FETCH_DONE_PROGRESS
    /\ 1 \in audio
    /\ tasks = EmptyBag

\* The repair handler this step starts on job j, branch "queue" or
\* "download"
RepairStarted(j, branch) ==
    \E t \in BagToSet(tasks') :
        /\ t.kind = "repair" /\ t.job = j /\ t.origin = branch
        /\ CopiesIn(t, tasks') = CopiesIn(t, tasks) + 1

OneFetcherPerJob ==
    \A j \in JobIds :
        BagCardinality([t \in {u \in Running : u.kind = "fetch" /\ u.job = j} |-> tasks[t]]) <= 1

\* C25: no row ever has status failed: the fetcher's and the worker's
\* failure paths delete the row, so the id has no row once they have run.
NoFailedRow ==
    /\ [](\A j \in JobIds : rows[j].status # "failed")
    /\ [][\A t \in Running :
            FetchCleanup(t) \/ WorkerFail(t) => rows'[t.job].status = "absent"]_vars

\* C25 witness: both jobs have failed, job 1 in its fetch and job 2 in the
\* worker: neither has a row and both have a log.
BothJobsFailed ==
    /\ resp = Resp("worker_failed", 0, 2)
    /\ logs = {1, 2}
    /\ ~Exists(1) /\ ~Exists(2)
    /\ rows[1].status # "failed" /\ rows[2].status # "failed"
    /\ tasks = EmptyBag

\* The id was given to a job whose row is gone.
Deleted(j) == j <= nextId /\ ~Exists(j)

\* C26: a deleted row never comes back: the UPDATEs a fetcher or worker
\* still running for the id issues afterwards change nothing in the store.
DeletedRowStaysDeleted ==
    [][\A j \in JobIds : Deleted(j) =>
          /\ ~Exists(j)'
          /\ \A t \in Running :
               /\ t.job = j
               /\ \/ \E p \in HookValues : FetchHook(t, p)
                  \/ FetchSetPath(t)
                  \/ FetchSetProgress(t) \/ FetchQueued(t)
                  \/ RunStart(t) \/ WorkerProgress100(t) \/ WorkerComplete(t)
               => rows' = rows]_vars

\* C26 witness: the row of job 1 was deleted while the worker ran on it;
\* the worker has since stored progress 100, and the id still has no row.
WorkerWroteToDeletedRow ==
    /\ Deleted(1)
    /\ \E t \in Running : t.kind = "worker" /\ t.job = 1 /\ t.pc = "p100"

\* C27: GET /api/analysis/{id} changes neither the row nor the artifact,
\* whatever the job's status: not when it answers analysis_missing for a
\* complete job without artifact, and not when it fills the title or
\* artist of its answer from the job's columns.
GetAnalysisReadOnly ==
    [][\A j \in JobIds : GetAnalysis(j) =>
          /\ UNCHANGED <<rows, audio, analysis, logs, artifact, tasks>>
          /\ Exists(j) /\ rows[j].status = "complete" /\ j \notin analysis
             => resp' = Resp("analysis_missing", 200, j)
          /\ Exists(j) /\ rows[j].status = "complete" /\ j \in analysis
             => /\ resp'.code = 200
                /\ resp'.items[1] = IF artifact[j].title # Blank THEN artifact[j].title
                                    ELSE IF HasTitle(rows[j].track) THEN FromJob
                                    ELSE Blank
                /\ resp'.items[2] = IF artifact[j].artist # Blank THEN artifact[j].artist
                                    ELSE IF HasArtist(rows[j].track) THEN FromJob
                                    ELSE Blank]_vars

\* C27 witness: the artifact of the complete job 1 has no title, its row
\* has one; the GET was answered with the row's title and the artifact
\* still has none.  Job 2 is complete without artifact.
GetFilledTitle ==
    /\ resp = Listing(Resp("get", 200, 1), <<FromJob, FromTags>>)
    /\ rows[1].status = "complete" /\ 1 \in analysis
    /\ artifact[1] = [title |-> Blank, artist |-> FromTags]
    /\ rows[2].status = "complete" /\ 2 \notin analysis

\* C28: apply_track_metadata keeps a title or artist the artifact's track
\* object already has, and writes the job's title and artist only into the
\* fields the artifact lacks.
OverlayKeepsArtifactFields ==
    [][\A t \in Running : ApplyTrackMetadata(t) =>
          artifact'[t.job] = overlay_IfAbsent(artifact[t.job], t.track)]_vars

\* C29 as stated: under fair scheduling every queued job is claimed in the
\* end, and every claimed job becomes complete or loses its row.
QueuedEventuallyClaimed ==
    \A j \in JobIds :
        /\ (rows[j].status = "queued") ~> (rows[j].status = "processing")
        /\ (rows[j].status = "processing") ~> (rows[j].status \in {"complete", "absent"})

\* C29 amended: under fair scheduling every queued job is claimed in the
\* end unless a DELETE removes its row first, and every claimed job becomes
\* complete or loses its row: no job stays queued or processing forever.
QueuedEventuallyLeaves ==
    \A j \in JobIds :
        /\ (rows[j].status = "queued") ~> (rows[j].status \in {"processing", "absent"})
        /\ (rows[j].status = "processing") ~> (rows[j].status \in {"complete", "absent"})

\* C29 witness: job 1 was claimed and is complete with its artifact; job 2
\* was deleted on request, and no worker has failed on it.
OneCompleteOneDeleted ==
    /\ rows[1].status = "complete" /\ 1 \in analysis
    /\ Deleted(2) /\ 2 \notin logs
    /\ resp = Resp("delete", 200, 2)
    /\ tasks = EmptyBag

\* An event list as the result promises it: starts strictly increasing,
\* no duration below 0, no event reaching into the next one
WellFormed(events) ==
    /\ \A i \in DOMAIN events : events[i].duration >= 0
    /\ \A i \in 1..(Len(events) - 1) :
          /\ events[i].start < events[i + 1].start
          /\ events[i].start + events[i].duration <= events[i + 1].start

\* C30: in the result every event list (beats, bars, tatums, segments) has
\* strictly increasing starts, durations of 0 or more and no event that
\* overlaps the next one, for any boundary times, also when several beats
\* snap to one onset peak and when the start time-warp is configured.
EventListsWellFormed ==
    result.stage \in {"beats", "segments"} =>
        /\ WellFormed(result.beats)
        /\ WellFormed(result.bars)
        /\ WellFormed(result.tatums)
        /\ WellFormed(result.segments)

\* The part that holds: the lists that _events_from_times builds are
\* well-formed, also when beats share a snapped time; so are the segments
\* while no start map is configured.
EventListsWithoutWarp ==
    result.stage \in {"beats", "segments"} =>
        /\ WellFormed(result.beats)
        /\ WellFormed(result.bars)
        /\ WellFormed(result.tatums)
        /\ result.start_offset_map_dst = NoMap => WellFormed(result.segments)

\* Two beats snapped to one peak, and segments built without a start map
SnappedTogether ==
    /\ result.stage = "segments"
    /\ \E i \in 1..(Len(result.beat_times) - 1) :
          result.beat_times[i] = result.beat_times[i + 1]
    /\ Len(result.beats) >= 2
    /\ result.start_offset_map_dst = NoMap
    /\ Len(result.segments) >= 2

====
